---- MODULE Spec2Model ----
(***************************************************************************)
(* A model of riffy's WAVParser (src/src/riffy/wav.py): a RIFF/WAVE parse  *)
(* session over a byte-level file system, its chunk store, the chunk       *)
(* mutation API and the serializer.                                        *)
(*                                                                         *)
(* Conventions.  A byte is a number in 0..255 and a file is a sequence of  *)
(* bytes.  A chunk id is the sequence of the code points of its            *)
(* characters.  Python's None is the empty sequence << >> and a present    *)
(* value v is the one-element sequence << v >> (so that b'' and None       *)
(* differ, as they do in the code).  The chunk dictionary is the sequence  *)
(* of its entries in insertion order.  A float quotient a / b is the pair  *)
(* << a, b >>, compared by cross-multiplication.                           *)
(***************************************************************************)
EXTENDS Integers, Sequences, FiniteSets, TLC

VARIABLES fs, sessions, result, nops

vars == <<fs, sessions, result, nops>>

(***************************************************************************)
(* Bytes, ids and little-endian integers (struct '<H', '<I', '4s').        *)
(***************************************************************************)
RIFF == <<82, 73, 70, 70>>
WAVE == <<87, 65, 86, 69>>
FMT == <<102, 109, 116, 32>>
DATA == <<100, 97, 116, 97>>

Min(a, b) == IF a < b THEN a ELSE b

pack_H(n) == <<n % 256, (n \div 256) % 256>>

pack_I(n) == <<n % 256, (n \div 256) % 256, (n \div 65536) % 256, (n \div 16777216) % 256>>

unpack_H(b) == b[1] + 256 * b[2]

unpack_I(b) == b[1] + 256 * b[2] + 65536 * b[3] + 16777216 * b[4]

\* bytes.decode('ascii') / str.encode('ascii') succeed iff every unit is < 128.
IsAscii(id) == \A i \in 1..Len(id) : id[i] < 128

\* f.read(n) with the stream at offset pos: at most n bytes, fewer at the end.
read(bytes, pos, n) ==
    IF pos >= Len(bytes) \/ n = 0 THEN << >>
    ELSE SubSeq(bytes, pos + 1, Min(pos + n, Len(bytes)))

(***************************************************************************)
(* Exceptions: kind "none" is a normal return.  ids carries the chunk ids  *)
(* a message lists.                                                        *)
(***************************************************************************)
NoErr == [kind |-> "none", msg |-> "", ids |-> << >>]

Raise(kind, msg) == [kind |-> kind, msg |-> msg, ids |-> << >>]

RaiseIds(kind, msg, ids) == [kind |-> kind, msg |-> msg, ids |-> ids]

NotParsedErr == Raise("WAVError", "File not parsed yet. Call parse() first.")

(***************************************************************************)
(* The dataclasses and the chunk dictionary.                               *)
(***************************************************************************)
WAVFormat(af, ch, sr, br, ba, bps) ==
    [audio_format |-> af, channels |-> ch, sample_rate |-> sr, byte_rate |-> br,
     block_align |-> ba, bits_per_sample |-> bps, duration_seconds |-> <<0, 1>>]

is_pcm(f) == f.audio_format = 1

WAVChunk(id, size, data, offset) ==
    [id |-> id, size |-> size, data |-> data, offset |-> offset]

Keys(chunks) == [i \in 1..Len(chunks) |-> chunks[i].key]

HasKey(chunks, k) == \E i \in 1..Len(chunks) : chunks[i].key = k

Get(chunks, k) == chunks[CHOOSE i \in 1..Len(chunks) : chunks[i].key = k].val

\* Mutant: an existing key keeps its value (the first chunks[k] = v wins).
Put_first_wins(chunks, k, v) ==
    IF HasKey(chunks, k) THEN chunks
    ELSE Append(chunks, [key |-> k, val |-> v])

\* Mutant: a list of records; every store appends, nothing is overwritten.
Put_append(chunks, k, v) == Append(chunks, [key |-> k, val |-> v])

\* chunks[k] = v: an existing key keeps its place, a new key goes last.
Put(chunks, k, v) ==
    IF HasKey(chunks, k)
    THEN [i \in 1..Len(chunks) |->
            IF chunks[i].key = k THEN [key |-> k, val |-> v] ELSE chunks[i]]
    ELSE Append(chunks, [key |-> k, val |-> v])

DurEq(a, b) == a[1] * b[2] = b[1] * a[2]

(***************************************************************************)
(* Paths.  A path names a file through resolve (Path.resolve()): two       *)
(* strings may name one file.  The file system maps each resolved path to  *)
(* << >> (no such file) or << its bytes >>.  Opening a file for writing in *)
(* a directory that does not exist raises OSError.                         *)
(***************************************************************************)
resolve(path) == IF path = "./a.wav" THEN "a.wav" ELSE path

Unwritable(path) == path = "missing/x.bin"

\* open(path, 'wb') followed by the writes of bytes, as a whole.
WriteFile(files, path, bytes) == [files EXCEPT ![resolve(path)] = <<bytes>>]

(***************************************************************************)
(* WAVParser.__init__ and the parse pipeline.  Every operation on a        *)
(* session is an operator from the session (and its arguments) to          *)
(* [s |-> the session afterwards, err |-> the exception raised or NoErr,   *)
(*  ret |-> << the value returned >>].  An exception leaves the session as *)
(* the statements before the raise have made it.                           *)
(***************************************************************************)
WAVParserInit(path) ==
    [file_path |-> path, format_info |-> << >>, chunks |-> << >>,
     audio_data |-> << >>, file_size |-> 0]

Out(s, err) == [s |-> s, err |-> err, ret |-> << >>]

Ret(s, v) == [s |-> s, err |-> NoErr, ret |-> <<v>>]

\* Mutant: the declared size is checked against the length of the file.
_parse_riff_header_checks_size(bytes) ==
    LET riff_header == read(bytes, 0, 12) IN
    IF Len(riff_header) # 12
    THEN Raise("CorruptedFileError", "File too small to be a valid WAV file")
    ELSE IF SubSeq(riff_header, 1, 4) # RIFF
    THEN Raise("InvalidWAVFormatError", "Not a valid RIFF file")
    ELSE IF SubSeq(riff_header, 9, 12) # WAVE
    THEN Raise("InvalidWAVFormatError", "Not a valid WAV file")
    ELSE IF unpack_I(SubSeq(riff_header, 5, 8)) # Len(bytes) - 8
    THEN Raise("CorruptedFileError", "File too small to be a valid WAV file")
    ELSE NoErr

_parse_riff_header(bytes) ==
    LET riff_header == read(bytes, 0, 12) IN
    IF Len(riff_header) # 12
    THEN Raise("CorruptedFileError", "File too small to be a valid WAV file")
    ELSE IF SubSeq(riff_header, 1, 4) # RIFF
    THEN Raise("InvalidWAVFormatError", "Not a valid RIFF file")
    ELSE IF SubSeq(riff_header, 9, 12) # WAVE
    THEN Raise("InvalidWAVFormatError", "Not a valid WAV file")
    ELSE NoErr

\* struct.unpack('<HHIIHH', data[:16]) as a WAVFormat, for data of 16 bytes or more.
unpack_fmt(data) ==
    WAVFormat(unpack_H(SubSeq(data, 1, 2)), unpack_H(SubSeq(data, 3, 4)),
              unpack_I(SubSeq(data, 5, 8)), unpack_I(SubSeq(data, 9, 12)),
              unpack_H(SubSeq(data, 13, 14)), unpack_H(SubSeq(data, 15, 16)))

\* Mutant: the extension size of a non-PCM format chunk is not checked.
_parse_format_chunk_no_cbsize(sess, data) ==
    IF Len(data) < 16
    THEN Out(sess, Raise("InvalidWAVFormatError", "Format chunk too small"))
    ELSE IF unpack_H(SubSeq(data, 1, 2)) # 1 /\ Len(data) < 18
    THEN Out(sess, Raise("InvalidWAVFormatError",
                         "Non-PCM format requires at least 18 bytes in format chunk"))
    ELSE Out([sess EXCEPT !.format_info = <<unpack_fmt(data)>>], NoErr)

_parse_format_chunk(sess, data) ==
    IF Len(data) < 16
    THEN Out(sess, Raise("InvalidWAVFormatError", "Format chunk too small"))
    ELSE
    LET audio_format == unpack_H(SubSeq(data, 1, 2)) IN
    IF audio_format # 1 /\ Len(data) < 18
    THEN Out(sess, Raise("InvalidWAVFormatError",
                         "Non-PCM format requires at least 18 bytes in format chunk"))
    ELSE IF audio_format # 1 /\ Len(data) < 18 + unpack_H(SubSeq(data, 17, 18))
    THEN Out(sess, Raise("InvalidWAVFormatError",
                         "Format chunk size is smaller than expected"))
    ELSE Out([sess EXCEPT !.format_info = <<unpack_fmt(data)>>], NoErr)

RECURSIVE _parse_chunks(_, _, _)
\* Mutant: fewer than 8 bytes, but some, left at the end of the walk is an error.
_parse_chunks_trailing_error(sess, bytes, pos) ==
    LET chunk_header == read(bytes, pos, 8) IN
    IF Len(chunk_header) = 0 THEN Out(sess, NoErr)
    ELSE IF Len(chunk_header) < 8
    THEN Out(sess, RaiseIds("CorruptedFileError", "Incomplete chunk", <<chunk_header>>))
    ELSE
    LET chunk_id == SubSeq(chunk_header, 1, 4)
        chunk_size == unpack_I(SubSeq(chunk_header, 5, 8))
        chunk_offset == pos + 8
        chunk_data == read(bytes, chunk_offset, chunk_size)
    IN
    IF ~IsAscii(chunk_id)
    THEN Out(sess, RaiseIds("CorruptedFileError", "Invalid chunk ID (non-ASCII bytes)",
                            <<chunk_id>>))
    ELSE IF Len(chunk_data) # chunk_size
    THEN Out(sess, RaiseIds("CorruptedFileError", "Incomplete chunk", <<chunk_id>>))
    ELSE
    LET stored == [sess EXCEPT !.chunks =
                     Put(@, chunk_id, WAVChunk(chunk_id, chunk_size, chunk_data, chunk_offset))]
        special == IF chunk_id = FMT THEN _parse_format_chunk(stored, chunk_data)
                   ELSE IF chunk_id = DATA
                   THEN Out([stored EXCEPT !.audio_data = <<chunk_data>>], NoErr)
                   ELSE Out(stored, NoErr)
        next == Min(chunk_offset + chunk_size + (chunk_size % 2), Len(bytes))
    IN
    IF special.err.kind # "none" THEN special
    ELSE _parse_chunks(special.s, bytes, next)

_parse_chunks(sess, bytes, pos) ==
    LET chunk_header == read(bytes, pos, 8) IN
    IF Len(chunk_header) < 8 THEN Out(sess, NoErr)
    ELSE
    LET chunk_id == SubSeq(chunk_header, 1, 4)
        chunk_size == unpack_I(SubSeq(chunk_header, 5, 8))
        chunk_offset == pos + 8
        chunk_data == read(bytes, chunk_offset, chunk_size)
    IN
    IF ~IsAscii(chunk_id)
    THEN Out(sess, RaiseIds("CorruptedFileError", "Invalid chunk ID (non-ASCII bytes)",
                            <<chunk_id>>))
    ELSE IF Len(chunk_data) # chunk_size
    THEN Out(sess, RaiseIds("CorruptedFileError", "Incomplete chunk", <<chunk_id>>))
    ELSE
    LET stored == [sess EXCEPT !.chunks =
                     Put(@, chunk_id, WAVChunk(chunk_id, chunk_size, chunk_data, chunk_offset))]
        special == IF chunk_id = FMT THEN _parse_format_chunk(stored, chunk_data)
                   ELSE IF chunk_id = DATA
                   THEN Out([stored EXCEPT !.audio_data = <<chunk_data>>], NoErr)
                   ELSE Out(stored, NoErr)
        \* the pad byte is read with f.read(1): at the end of the file it reads nothing
        next == Min(chunk_offset + chunk_size + (chunk_size % 2), Len(bytes))
    IN
    IF special.err.kind # "none" THEN special
    ELSE _parse_chunks(special.s, bytes, next)

\* "if self.audio_data": None and b'' are both false.
Truthy(audio_data) == audio_data # << >> /\ audio_data[1] # << >>

_calculate_duration(sess) ==
    IF Truthy(sess.audio_data) /\ sess.format_info # << >>
       /\ sess.format_info[1].byte_rate > 0
    THEN [sess EXCEPT !.format_info[1].duration_seconds =
            <<Len(sess.audio_data[1]), sess.format_info[1].byte_rate>>]
    ELSE sess

\* Mutant: the audio data is checked first.
_validate_format_data_first(sess) ==
    IF sess.audio_data = << >>
    THEN Raise("InvalidWAVFormatError", "No audio data found")
    ELSE IF sess.format_info = << >>
    THEN Raise("InvalidWAVFormatError", "No format chunk found")
    ELSE IF ~is_pcm(sess.format_info[1])
    THEN Raise("InvalidWAVFormatError", "Unsupported audio format")
    ELSE IF sess.format_info[1].channels = 0
    THEN Raise("InvalidWAVFormatError", "Invalid number of channels")
    ELSE IF sess.format_info[1].sample_rate = 0
    THEN Raise("InvalidWAVFormatError", "Invalid sample rate")
    ELSE NoErr

_validate_format(sess) ==
    IF sess.format_info = << >>
    THEN Raise("InvalidWAVFormatError", "No format chunk found")
    ELSE IF ~is_pcm(sess.format_info[1])
    THEN Raise("InvalidWAVFormatError", "Unsupported audio format")
    ELSE IF sess.format_info[1].channels = 0
    THEN Raise("InvalidWAVFormatError", "Invalid number of channels")
    ELSE IF sess.format_info[1].sample_rate = 0
    THEN Raise("InvalidWAVFormatError", "Invalid sample rate")
    ELSE IF sess.audio_data = << >>
    THEN Raise("InvalidWAVFormatError", "No audio data found")
    ELSE NoErr

\* The divisor of _calculate_sample_count; 0 makes Python raise ZeroDivisionError.
SampleDivisor(f) == (f.bits_per_sample \div 8) * f.channels

_calculate_sample_count(sess) ==
    IF ~Truthy(sess.audio_data) \/ sess.format_info = << >> THEN 0
    ELSE Len(sess.audio_data[1]) \div SampleDivisor(sess.format_info[1])

get_info(sess) ==
    IF sess.format_info = << >> THEN Out(sess, NotParsedErr)
    ELSE IF Truthy(sess.audio_data) /\ SampleDivisor(sess.format_info[1]) = 0
    THEN Out(sess, Raise("ZeroDivisionError", "integer division or modulo by zero"))
    ELSE
    LET f == sess.format_info[1] IN
    Ret(sess,
        [file_path |-> sess.file_path,
         file_size |-> sess.file_size,
         format |-> [audio_format |-> f.audio_format, channels |-> f.channels,
                     sample_rate |-> f.sample_rate, byte_rate |-> f.byte_rate,
                     block_align |-> f.block_align, bits_per_sample |-> f.bits_per_sample,
                     is_pcm |-> is_pcm(f)],
         duration_seconds |-> f.duration_seconds,
         audio_data_size |-> IF Truthy(sess.audio_data) THEN Len(sess.audio_data[1]) ELSE 0,
         sample_count |-> _calculate_sample_count(sess),
         chunks |-> [i \in 1..Len(sess.chunks) |->
                       <<sess.chunks[i].key, sess.chunks[i].val.size>>]])

\* parse() of the session against the file system files (path -> << >> or <<bytes>>).
parse(sess, files) ==
    IF files[resolve(sess.file_path)] = << >>
    THEN Out(sess, Raise("FileNotFoundError", "WAV file not found"))
    ELSE
    LET bytes == files[resolve(sess.file_path)][1]
        sized == [sess EXCEPT !.file_size = Len(bytes)]
        header == _parse_riff_header(bytes)
        walked == _parse_chunks(sized, bytes, 12)
        timed == _calculate_duration(walked.s)
        valid == _validate_format(timed)
    IN
    IF header.kind # "none" THEN Out(sized, header)
    ELSE IF walked.err.kind # "none" THEN walked
    ELSE IF valid.kind # "none" THEN Out(timed, valid)
    ELSE get_info(timed)

(***************************************************************************)
(* Queries and exports.  An operation that opens a destination also gives  *)
(* files: the file system afterwards.                                      *)
(***************************************************************************)
OutF(s, err, files) == [s |-> s, err |-> err, ret |-> << >>, files |-> files]

RetF(s, v, files) == [s |-> s, err |-> NoErr, ret |-> <<v>>, files |-> files]

ChunkNotFound(sess, chunk_id, msg) == RaiseIds("KeyError", msg, Keys(sess.chunks))

export_chunk(sess, files, chunk_id, output_path) ==
    IF sess.format_info = << >> THEN OutF(sess, NotParsedErr, files)
    ELSE IF ~HasKey(sess.chunks, chunk_id)
    THEN OutF(sess, ChunkNotFound(sess, chunk_id, "Chunk not found. Available chunks:"), files)
    ELSE IF Unwritable(output_path)
    THEN OutF(sess, Raise("WAVError", "Failed to write chunk to output_path"), files)
    ELSE RetF(sess, Len(Get(sess.chunks, chunk_id).data),
              WriteFile(files, output_path, Get(sess.chunks, chunk_id).data))

export_audio_data(sess, files, output_path) ==
    IF sess.format_info = << >> THEN OutF(sess, NotParsedErr, files)
    ELSE IF ~Truthy(sess.audio_data)
    THEN OutF(sess, Raise("WAVError", "No audio data available to export."), files)
    ELSE export_chunk(sess, files, DATA, output_path)

list_chunks(sess) ==
    IF sess.format_info = << >> THEN Out(sess, NotParsedErr)
    ELSE Ret(sess, [i \in 1..Len(sess.chunks) |->
                      [id |-> sess.chunks[i].key, size |-> sess.chunks[i].val.size,
                       offset |-> sess.chunks[i].val.offset]])

(***************************************************************************)
(* The chunk mutation API.                                                 *)
(***************************************************************************)
\* Mutant: the record keeps the size of the chunk it replaces.
replace_chunk_stale_size(sess, chunk_id, new_data) ==
    IF sess.format_info = << >> THEN Out(sess, NotParsedErr)
    ELSE IF ~HasKey(sess.chunks, chunk_id)
    THEN Out(sess, ChunkNotFound(sess, chunk_id, "Chunk not found. Available chunks:"))
    ELSE
    LET old_chunk == Get(sess.chunks, chunk_id)
        replaced == [sess EXCEPT !.chunks =
                       Put(@, chunk_id,
                           WAVChunk(chunk_id, old_chunk.size, new_data, old_chunk.offset))]
    IN
    IF chunk_id = DATA
    THEN Out(_calculate_duration([replaced EXCEPT !.audio_data = <<new_data>>]), NoErr)
    ELSE Out(replaced, NoErr)

\* Mutant: the new record gets offset 0, as an added chunk does.
replace_chunk_zero_offset(sess, chunk_id, new_data) ==
    IF sess.format_info = << >> THEN Out(sess, NotParsedErr)
    ELSE IF ~HasKey(sess.chunks, chunk_id)
    THEN Out(sess, ChunkNotFound(sess, chunk_id, "Chunk not found. Available chunks:"))
    ELSE
    LET replaced == [sess EXCEPT !.chunks =
                       Put(@, chunk_id, WAVChunk(chunk_id, Len(new_data), new_data, 0))]
    IN
    IF chunk_id = DATA
    THEN Out(_calculate_duration([replaced EXCEPT !.audio_data = <<new_data>>]), NoErr)
    ELSE Out(replaced, NoErr)

replace_chunk(sess, chunk_id, new_data) ==
    IF sess.format_info = << >> THEN Out(sess, NotParsedErr)
    ELSE IF ~HasKey(sess.chunks, chunk_id)
    THEN Out(sess, ChunkNotFound(sess, chunk_id, "Chunk not found. Available chunks:"))
    ELSE
    LET old_chunk == Get(sess.chunks, chunk_id)
        replaced == [sess EXCEPT !.chunks =
                       Put(@, chunk_id,
                           WAVChunk(chunk_id, Len(new_data), new_data, old_chunk.offset))]
    IN
    IF chunk_id = DATA
    THEN Out(_calculate_duration([replaced EXCEPT !.audio_data = <<new_data>>]), NoErr)
    ELSE Out(replaced, NoErr)

\* Mutant: the id is validated before the parsed guard is checked.
add_chunk_validate_first(sess, chunk_id, chunk_data) ==
    IF Len(chunk_id) # 4
    THEN Out(sess, Raise("ValueError", "Chunk ID must be exactly 4 characters"))
    ELSE IF ~IsAscii(chunk_id)
    THEN Out(sess, Raise("ValueError", "Chunk ID must contain only ASCII characters"))
    ELSE IF sess.format_info = << >> THEN Out(sess, NotParsedErr)
    ELSE IF HasKey(sess.chunks, chunk_id)
    THEN Out(sess, Raise("ValueError", "Chunk already exists. Use replace_chunk() to modify it."))
    ELSE Out([sess EXCEPT !.chunks =
                Put(@, chunk_id, WAVChunk(chunk_id, Len(chunk_data), chunk_data, 0))],
             NoErr)

\* Mutant: an id that is already in the store is stored again, over its record.
add_chunk_no_exists_check(sess, chunk_id, chunk_data) ==
    IF sess.format_info = << >> THEN Out(sess, NotParsedErr)
    ELSE IF Len(chunk_id) # 4
    THEN Out(sess, Raise("ValueError", "Chunk ID must be exactly 4 characters"))
    ELSE IF ~IsAscii(chunk_id)
    THEN Out(sess, Raise("ValueError", "Chunk ID must contain only ASCII characters"))
    ELSE Out([sess EXCEPT !.chunks =
                Put(@, chunk_id, WAVChunk(chunk_id, Len(chunk_data), chunk_data, 0))],
             NoErr)

add_chunk(sess, chunk_id, chunk_data) ==
    IF sess.format_info = << >> THEN Out(sess, NotParsedErr)
    ELSE IF Len(chunk_id) # 4
    THEN Out(sess, Raise("ValueError", "Chunk ID must be exactly 4 characters"))
    ELSE IF ~IsAscii(chunk_id)
    THEN Out(sess, Raise("ValueError", "Chunk ID must contain only ASCII characters"))
    ELSE IF HasKey(sess.chunks, chunk_id)
    THEN Out(sess, Raise("ValueError", "Chunk already exists. Use replace_chunk() to modify it."))
    ELSE Out([sess EXCEPT !.chunks =
                Put(@, chunk_id, WAVChunk(chunk_id, Len(chunk_data), chunk_data, 0))],
             NoErr)

\* Mutant: a valid id is stored as a new last entry, present or not.
set_chunk_append(sess, chunk_id, chunk_data) ==
    IF sess.format_info = << >> THEN Out(sess, NotParsedErr)
    ELSE IF Len(chunk_id) # 4
    THEN Out(sess, Raise("ValueError", "Chunk ID must be exactly 4 characters"))
    ELSE IF ~IsAscii(chunk_id)
    THEN Out(sess, Raise("ValueError", "Chunk ID must contain only ASCII characters"))
    ELSE Out([sess EXCEPT !.chunks =
                Append(@, [key |-> chunk_id,
                           val |-> WAVChunk(chunk_id, Len(chunk_data), chunk_data, 0)])],
             NoErr)

set_chunk(sess, chunk_id, chunk_data) ==
    IF sess.format_info = << >> THEN Out(sess, NotParsedErr)
    ELSE IF Len(chunk_id) # 4
    THEN Out(sess, Raise("ValueError", "Chunk ID must be exactly 4 characters"))
    ELSE IF ~IsAscii(chunk_id)
    THEN Out(sess, Raise("ValueError", "Chunk ID must contain only ASCII characters"))
    ELSE IF HasKey(sess.chunks, chunk_id)
    THEN replace_chunk(sess, chunk_id, chunk_data)
    ELSE add_chunk(sess, chunk_id, chunk_data)

\* Mutant: the source parser is checked before the parsed guard of self.
copy_chunk_from_parser_source_first(sess, chunk_id, source_parser) ==
    IF source_parser.format_info = << >>
    THEN Out(sess, Raise("WAVError", "Source parser hasn't been parsed yet."))
    ELSE IF sess.format_info = << >> THEN Out(sess, NotParsedErr)
    ELSE IF ~HasKey(source_parser.chunks, chunk_id)
    THEN Out(sess, ChunkNotFound(source_parser, chunk_id,
                                 "Chunk not found in source. Available chunks:"))
    ELSE set_chunk(sess, chunk_id, Get(source_parser.chunks, chunk_id).data)

copy_chunk_from_parser(sess, chunk_id, source_parser) ==
    IF sess.format_info = << >> THEN Out(sess, NotParsedErr)
    ELSE IF source_parser.format_info = << >>
    THEN Out(sess, Raise("WAVError", "Source parser hasn't been parsed yet."))
    ELSE IF ~HasKey(source_parser.chunks, chunk_id)
    THEN Out(sess, ChunkNotFound(source_parser, chunk_id,
                                 "Chunk not found in source. Available chunks:"))
    ELSE set_chunk(sess, chunk_id, Get(source_parser.chunks, chunk_id).data)

(***************************************************************************)
(* write_wav.                                                              *)
(***************************************************************************)
Pad(size) == size % 2

\* Python's order on str: by code point, a proper prefix first.
RECURSIVE StrLess(_, _)
StrLess(a, b) ==
    IF b = << >> THEN FALSE
    ELSE IF a = << >> THEN TRUE
    ELSE IF a[1] # b[1] THEN a[1] < b[1]
    ELSE StrLess(Tail(a), Tail(b))

\* sorted(ids), for a set of distinct ids.
RECURSIVE sorted(_)
sorted(ids) ==
    IF ids = {} THEN << >>
    ELSE LET first == CHOOSE a \in ids : \A b \in ids \ {a} : StrLess(a, b)
         IN <<first>> \o sorted(ids \ {first})

SeqToSet(q) == {q[i] : i \in 1..Len(q)}

\* Mutant: only 'fmt ' and 'data' are put in chunk_order.
ChunkOrder_required_only(chunks) ==
    (IF HasKey(chunks, FMT) THEN <<FMT>> ELSE << >>)
    \o (IF HasKey(chunks, DATA) THEN <<DATA>> ELSE << >>)

\* Mutant: the chunks other than 'fmt ' and 'data' are written in dictionary order.
ChunkOrder_unsorted(chunks) ==
    LET head == (IF HasKey(chunks, FMT) THEN <<FMT>> ELSE << >>)
                \o (IF HasKey(chunks, DATA) THEN <<DATA>> ELSE << >>)
    IN head \o SelectSeq(Keys(chunks), LAMBDA k : k \notin SeqToSet(head))

\* chunk_order: fmt first, then data, then the others in sorted order.
ChunkOrder(chunks) ==
    LET head == (IF HasKey(chunks, FMT) THEN <<FMT>> ELSE << >>)
                \o (IF HasKey(chunks, DATA) THEN <<DATA>> ELSE << >>)
    IN head \o sorted(SeqToSet(Keys(chunks)) \ SeqToSet(head))

\* chunks_size: 4 for 'WAVE', then header, data and pad of every chunk.
RECURSIVE ChunksSize(_)
\* Mutant: chunks_size leaves out the pad bytes.
ChunksSize_no_pad(chunks) ==
    IF chunks = << >> THEN 4
    ELSE 8 + Head(chunks).val.size + ChunksSize(Tail(chunks))

ChunksSize(chunks) ==
    IF chunks = << >> THEN 4
    ELSE 8 + Head(chunks).val.size + Pad(Head(chunks).val.size) + ChunksSize(Tail(chunks))

\* The bytes the chunk loop writes, and the bytes_written it counts.
RECURSIVE ChunkBytes(_, _)
\* Mutant: the pad byte of an odd-sized chunk is not written.
ChunkBytes_no_pad(chunks, order) ==
    IF order = << >> THEN << >>
    ELSE LET chunk == Get(chunks, Head(order)) IN
         Head(order) \o pack_I(chunk.size) \o chunk.data \o ChunkBytes(chunks, Tail(order))

ChunkBytes(chunks, order) ==
    IF order = << >> THEN << >>
    ELSE LET chunk == Get(chunks, Head(order)) IN
         Head(order) \o pack_I(chunk.size) \o chunk.data
         \o (IF Pad(chunk.size) = 1 THEN <<0>> ELSE << >>)
         \o ChunkBytes(chunks, Tail(order))

RECURSIVE BytesWritten(_, _)
BytesWritten(chunks, order) ==
    IF order = << >> THEN 12
    ELSE LET chunk == Get(chunks, Head(order)) IN
         8 + chunk.size + Pad(chunk.size) + BytesWritten(chunks, Tail(order))

Serialize(chunks) ==
    RIFF \o pack_I(ChunksSize(chunks)) \o WAVE \o ChunkBytes(chunks, ChunkOrder(chunks))

\* Mutant: the destination is opened (and so created or emptied) before the required
\* chunks are checked.
write_wav_opens_first(sess, files, output_path, overwrite) ==
    IF sess.format_info = << >> THEN OutF(sess, NotParsedErr, files)
    ELSE IF resolve(output_path) = resolve(sess.file_path) /\ ~overwrite
    THEN OutF(sess, Raise("FileExistsError", "Output path is the same as input file."), files)
    ELSE IF Unwritable(output_path)
    THEN OutF(sess, Raise("OSError", "No such file or directory"), files)
    ELSE IF ~HasKey(sess.chunks, FMT)
    THEN OutF(sess, RaiseIds("InvalidWAVFormatError", "Cannot write WAV file without chunk",
                             <<FMT>>), WriteFile(files, output_path, << >>))
    ELSE IF ~HasKey(sess.chunks, DATA)
    THEN OutF(sess, RaiseIds("InvalidWAVFormatError", "Cannot write WAV file without chunk",
                             <<DATA>>), WriteFile(files, output_path, << >>))
    ELSE RetF(sess, BytesWritten(sess.chunks, ChunkOrder(sess.chunks)),
              WriteFile(files, output_path, Serialize(sess.chunks)))

\* Mutant: the overwrite guard compares the path strings, not the resolved paths.
write_wav_string_compare(sess, files, output_path, overwrite) ==
    IF sess.format_info = << >> THEN OutF(sess, NotParsedErr, files)
    ELSE IF output_path = sess.file_path /\ ~overwrite
    THEN OutF(sess, Raise("FileExistsError", "Output path is the same as input file."), files)
    ELSE IF ~HasKey(sess.chunks, FMT)
    THEN OutF(sess, RaiseIds("InvalidWAVFormatError", "Cannot write WAV file without chunk",
                             <<FMT>>), files)
    ELSE IF ~HasKey(sess.chunks, DATA)
    THEN OutF(sess, RaiseIds("InvalidWAVFormatError", "Cannot write WAV file without chunk",
                             <<DATA>>), files)
    ELSE IF Unwritable(output_path)
    THEN OutF(sess, Raise("OSError", "No such file or directory"), files)
    ELSE RetF(sess, BytesWritten(sess.chunks, ChunkOrder(sess.chunks)),
              WriteFile(files, output_path, Serialize(sess.chunks)))

\* Mutant: a successful write refreshes the offset of every record to the place of
\* its payload in the output, as the docstring of write_wav suggests.
write_wav_updates_offsets(sess, files, output_path, overwrite) ==
    IF sess.format_info = << >> THEN OutF(sess, NotParsedErr, files)
    ELSE IF resolve(output_path) = resolve(sess.file_path) /\ ~overwrite
    THEN OutF(sess, Raise("FileExistsError", "Output path is the same as input file."), files)
    ELSE IF ~HasKey(sess.chunks, FMT)
    THEN OutF(sess, RaiseIds("InvalidWAVFormatError", "Cannot write WAV file without chunk",
                             <<FMT>>), files)
    ELSE IF ~HasKey(sess.chunks, DATA)
    THEN OutF(sess, RaiseIds("InvalidWAVFormatError", "Cannot write WAV file without chunk",
                             <<DATA>>), files)
    ELSE IF Unwritable(output_path)
    THEN OutF(sess, Raise("OSError", "No such file or directory"), files)
    ELSE
    LET order == ChunkOrder(sess.chunks)
        place(k) == CHOOSE i \in 1..Len(order) : order[i] = k
        refreshed == [i \in 1..Len(sess.chunks) |->
                        [sess.chunks[i] EXCEPT !.val.offset =
                           BytesWritten(sess.chunks,
                                        SubSeq(order, 1, place(sess.chunks[i].key) - 1)) + 8]]
    IN RetF([sess EXCEPT !.chunks = refreshed],
            BytesWritten(sess.chunks, order),
            WriteFile(files, output_path, Serialize(sess.chunks)))

write_wav(sess, files, output_path, overwrite) ==
    IF sess.format_info = << >> THEN OutF(sess, NotParsedErr, files)
    ELSE IF resolve(output_path) = resolve(sess.file_path) /\ ~overwrite
    THEN OutF(sess, Raise("FileExistsError", "Output path is the same as input file."), files)
    ELSE IF ~HasKey(sess.chunks, FMT)
    THEN OutF(sess, RaiseIds("InvalidWAVFormatError", "Cannot write WAV file without chunk",
                             <<FMT>>), files)
    ELSE IF ~HasKey(sess.chunks, DATA)
    THEN OutF(sess, RaiseIds("InvalidWAVFormatError", "Cannot write WAV file without chunk",
                             <<DATA>>), files)
    ELSE IF Unwritable(output_path)
    THEN OutF(sess, Raise("OSError", "No such file or directory"), files)
    ELSE RetF(sess, BytesWritten(sess.chunks, ChunkOrder(sess.chunks)),
              WriteFile(files, output_path, Serialize(sess.chunks)))

(***************************************************************************)
(* Input files, built as the test fixtures build them (struct.pack into a  *)
(* RIFF/WAVE layout), and the arguments the operations are called with.    *)
(***************************************************************************)
LIST == <<76, 73, 83, 84>>

\* The six fields of a 'fmt ' payload.
FmtPayload(af, ch, sr, br, ba, bps) ==
    pack_H(af) \o pack_H(ch) \o pack_I(sr) \o pack_I(br) \o pack_H(ba) \o pack_H(bps)

\* One chunk: id, size, data and the pad byte of an odd size.
ChunkOf(id, data) ==
    id \o pack_I(Len(data)) \o data \o (IF Len(data) % 2 = 1 THEN <<0>> ELSE << >>)

\* A RIFF/WAVE file around body, with the declared size the fixtures compute.
WavOf(body) == RIFF \o pack_I(4 + Len(body)) \o WAVE \o body

PcmFmt == FmtPayload(1, 1, 8, 2, 1, 8)

AltFmt == FmtPayload(1, 2, 8, 4, 2, 8)

\* fmt, odd data, an even chunk after it
PlainWav == WavOf(ChunkOf(FMT, PcmFmt) \o ChunkOf(DATA, <<1, 2, 3>>) \o ChunkOf(LIST, <<5, 6>>))

\* data before fmt, 'fmt ' and 'data' twice (the later chunk overwrites the earlier),
\* three trailing bytes
RepeatedWav ==
    WavOf(ChunkOf(LIST, <<5>>) \o ChunkOf(DATA, <<1, 2>>) \o ChunkOf(FMT, AltFmt)
          \o ChunkOf(FMT, PcmFmt) \o ChunkOf(DATA, <<3>>)) \o <<9, 9, 9>>

\* byte_rate 0, an odd last chunk without its pad byte, a declared size that is wrong
ZeroRateWav ==
    RIFF \o pack_I(0) \o WAVE \o ChunkOf(FMT, FmtPayload(1, 1, 8, 0, 1, 8))
    \o DATA \o pack_I(1) \o <<1>>

\* no data chunk
NoDataWav == WavOf(ChunkOf(FMT, PcmFmt))

\* no fmt chunk
NoFmtWav == WavOf(ChunkOf(DATA, <<1, 2>>))

\* non-PCM (mu-law) with cbSize = 0
NonPcmWav ==
    WavOf(ChunkOf(FMT, FmtPayload(7, 1, 8, 2, 1, 8) \o pack_H(0)) \o ChunkOf(DATA, <<1, 2>>))

ValidFiles ==
    { PlainWav, RepeatedWav, ZeroRateWav,
      WavOf(ChunkOf(FMT, PcmFmt) \o ChunkOf(DATA, <<1, 2, 3, 4>>)),
      \* empty data chunk
      WavOf(ChunkOf(FMT, PcmFmt) \o ChunkOf(DATA, << >>)),
      \* 'LIST' twice, around the data chunk
      WavOf(ChunkOf(FMT, PcmFmt) \o ChunkOf(LIST, <<5, 6>>) \o ChunkOf(DATA, <<1, 2>>)
            \o ChunkOf(LIST, <<8>>)),
      \* PCM format chunks with one and two bytes after the six fields
      WavOf(ChunkOf(FMT, PcmFmt \o <<9>>) \o ChunkOf(DATA, <<1, 2>>)),
      WavOf(ChunkOf(FMT, PcmFmt \o <<9, 9>>) \o ChunkOf(DATA, <<1, 2>>)) }

InvalidFiles ==
    { NoDataWav, NoFmtWav, NonPcmWav,
      \* non-PCM without cbSize
      WavOf(ChunkOf(FMT, FmtPayload(6, 1, 8, 2, 1, 8)) \o ChunkOf(DATA, <<1, 2>>)),
      \* a good fmt chunk and data, then a fmt chunk that is too small
      WavOf(ChunkOf(FMT, PcmFmt) \o ChunkOf(DATA, <<1, 2>>) \o ChunkOf(FMT, <<1, 0>>)),
      \* zero channels, zero sample rate
      WavOf(ChunkOf(FMT, FmtPayload(1, 0, 8, 2, 1, 8)) \o ChunkOf(DATA, <<1, 2>>)),
      WavOf(ChunkOf(FMT, FmtPayload(1, 1, 0, 2, 1, 8)) \o ChunkOf(DATA, <<1, 2>>)),
      \* 4 bits per sample: bits_per_sample // 8 is 0
      WavOf(ChunkOf(FMT, FmtPayload(1, 1, 8, 2, 1, 4)) \o ChunkOf(DATA, <<1, 2>>)),
      \* truncated chunk, non-ASCII chunk id
      WavOf(ChunkOf(FMT, PcmFmt) \o DATA \o pack_I(4) \o <<1, 2>>),
      WavOf(ChunkOf(FMT, PcmFmt) \o ChunkOf(<<255, 255, 255, 255>>, <<1, 2>>)),
      \* tiny file, wrong magic tags
      <<82, 73, 70, 70, 0, 0>>,
      <<74, 85, 78, 75>> \o pack_I(4) \o WAVE \o ChunkOf(FMT, PcmFmt),
      RIFF \o pack_I(4) \o <<74, 85, 78, 75>> \o ChunkOf(FMT, PcmFmt),
      \* the header alone, the header one byte short, both tags wrong, a short file
      \* with a wrong tag
      RIFF \o pack_I(4) \o WAVE,
      RIFF \o pack_I(3) \o <<87, 65, 86>>,
      <<74, 85, 78, 75>> \o pack_I(4) \o <<74, 85, 78, 75>> \o ChunkOf(FMT, PcmFmt),
      <<74, 85, 78, 75, 0, 0>>,
      \* format chunks of 15 bytes, non-PCM of 17 bytes, non-PCM with cbSize = 2 and
      \* no extension bytes, non-PCM with cbSize = 2 and its two extension bytes
      WavOf(ChunkOf(FMT, SubSeq(PcmFmt, 1, 15)) \o ChunkOf(DATA, <<1, 2>>)),
      WavOf(ChunkOf(FMT, FmtPayload(7, 1, 8, 2, 1, 8) \o <<0>>) \o ChunkOf(DATA, <<1, 2>>)),
      WavOf(ChunkOf(FMT, FmtPayload(7, 1, 8, 2, 1, 8) \o pack_H(2)) \o ChunkOf(DATA, <<1, 2>>)),
      WavOf(ChunkOf(FMT, FmtPayload(7, 1, 8, 2, 1, 8) \o pack_H(2) \o <<9, 9>>)
            \o ChunkOf(DATA, <<1, 2>>)),
      \* several defects at once: non-PCM, zero channels, zero sample rate and no data;
      \* zero channels, zero sample rate and no data; zero sample rate and no data
      WavOf(ChunkOf(FMT, FmtPayload(7, 0, 0, 2, 1, 8) \o pack_H(0))),
      WavOf(ChunkOf(FMT, FmtPayload(1, 0, 0, 2, 1, 8))),
      WavOf(ChunkOf(FMT, FmtPayload(1, 1, 0, 2, 1, 8))) }

\* Every input file: the sources of the parse-and-write specification SpecFiles.
SourceFiles == ValidFiles \cup InvalidFiles

\* The sources of the session specification Spec: after parse() they give a valid
\* session, a session whose parse failed with format_info set (no data chunk, not
\* PCM) and one whose parse failed without it (no fmt chunk).
SessionFiles == {PlainWav, RepeatedWav, ZeroRateWav, NoDataWav, NonPcmWav, NoFmtWav}

OtherFile == WavOf(ChunkOf(FMT, AltFmt) \o ChunkOf(DATA, <<6, 6, 6>>) \o ChunkOf(LIST, <<5>>))

Sess == {1, 2}

\* The session under test; the other session is parsed and copied from.
Active == {1}

FileNames == {"a.wav", "b.wav", "out.wav", "out.bin"}

SourcePath(s) == IF s = 1 THEN "a.wav" ELSE "b.wav"

\* 'fmt ', 'data', 'LIST', a two-character id and an id with a non-ASCII character.
ChunkIds == {FMT, DATA, LIST, <<97, 98>>, <<233, 116, 116, 33>>}

\* The (id, data) arguments of replace_chunk, add_chunk and set_chunk.
ChunkArgs ==
    { <<FMT, AltFmt>>, <<FMT, <<7>>>>, <<DATA, << >>>>, <<DATA, <<7>>>>,
      <<LIST, << >>>>, <<LIST, <<7, 8>>>>, <<<<97, 98>>, <<7>>>>, <<<<233, 116, 116, 33>>, <<7>>>> }

WritePaths == {"out.wav", "./a.wav", "missing/x.bin"}

ExportPaths == {"out.bin", "missing/x.bin"}

\* The number of successful store or file changes a behaviour may make.
MaxOps == 2

(***************************************************************************)
(* The state machine.  sessions[s] is a WAVParser object, fs the file      *)
(* system, result the last call: its name, session, id and path arguments, *)
(* the exception it raised and the value it returned.  nops counts the     *)
(* calls that changed a store or a file.                                   *)
(***************************************************************************)
Call(op, s, id, path, out) ==
    [op |-> op, s |-> s, id |-> id, path |-> path, err |-> out.err, ret |-> out.ret]

\* The state after WAVParser("a.wav") and WAVParser("b.wav"), with a.wav one of files
\* or missing.
InitWith(files) ==
    /\ \E a \in {<<f>> : f \in files} \cup {<< >>} :
          fs = [n \in FileNames |->
                  IF n = "a.wav" THEN a ELSE IF n = "b.wav" THEN <<OtherFile>> ELSE << >>]
    /\ sessions = [s \in Sess |-> WAVParserInit(SourcePath(s))]
    /\ result = Call("__init__", 1, << >>, "", Out(<< >>, NoErr))
    /\ nops = 0

Init == InitWith(SessionFiles)

InitFiles == InitWith(SourceFiles)

\* WAVParser(path): a new object takes the place of sessions[s].
Construct(s, path) ==
    /\ sessions' = [sessions EXCEPT ![s] = WAVParserInit(path)]
    /\ result' = Call("__init__", s, << >>, path, Out(<< >>, NoErr))
    /\ UNCHANGED <<fs, nops>>

Parse(s) ==
    LET out == parse(sessions[s], fs) IN
    /\ sessions' = [sessions EXCEPT ![s] = out.s]
    /\ result' = Call("parse", s, << >>, "", out)
    /\ UNCHANGED <<fs, nops>>

GetInfo(s) ==
    /\ result' = Call("get_info", s, << >>, "", get_info(sessions[s]))
    /\ UNCHANGED <<fs, sessions, nops>>

ListChunks(s) ==
    /\ result' = Call("list_chunks", s, << >>, "", list_chunks(sessions[s]))
    /\ UNCHANGED <<fs, sessions, nops>>

\* Effect with one chunk dictionary shared by every object (a class attribute).
Effect_shared_store(op, s, id, path, out, files) ==
    /\ nops < MaxOps
    /\ sessions' = [o \in Sess |->
                      IF o = s THEN out.s ELSE [sessions[o] EXCEPT !.chunks = out.s.chunks]]
    /\ fs' = files
    /\ result' = Call(op, s, id, path, out)
    /\ nops' = IF out.err.kind = "none" THEN nops + 1 ELSE nops

\* A call that may change the store of s or a file: counted when it does.
Effect(op, s, id, path, out, files) ==
    /\ nops < MaxOps
    /\ sessions' = [sessions EXCEPT ![s] = out.s]
    /\ fs' = files
    /\ result' = Call(op, s, id, path, out)
    /\ nops' = IF out.err.kind = "none" THEN nops + 1 ELSE nops

ExportChunk(s, id, path) ==
    LET out == export_chunk(sessions[s], fs, id, path) IN
    Effect("export_chunk", s, id, path, out, out.files)

ExportAudioData(s, path) ==
    LET out == export_audio_data(sessions[s], fs, path) IN
    Effect("export_audio_data", s, << >>, path, out, out.files)

ReplaceChunk(s, id, data) ==
    Effect("replace_chunk", s, id, "", replace_chunk(sessions[s], id, data), fs)

AddChunk(s, id, data) ==
    Effect("add_chunk", s, id, "", add_chunk(sessions[s], id, data), fs)

SetChunk(s, id, data) ==
    Effect("set_chunk", s, id, "", set_chunk(sessions[s], id, data), fs)

CopyChunkFromParser(s, id, src) ==
    Effect("copy_chunk_from_parser", s, id, "",
           copy_chunk_from_parser(sessions[s], id, sessions[src]), fs)

WriteWav(s, path, overwrite) ==
    LET out == write_wav(sessions[s], fs, path, overwrite) IN
    Effect("write_wav", s, << >>, path, out, out.files)

Next ==
    \/ \E s \in Active : \E path \in {SourcePath(s), "out.wav"} : Construct(s, path)
    \/ \E s \in Sess : Parse(s)
    \/ \E s \in Active : GetInfo(s)
    \/ \E s \in Active : ListChunks(s)
    \/ \E s \in Active : \E id \in ChunkIds : \E path \in ExportPaths : ExportChunk(s, id, path)
    \/ \E s \in Active : \E path \in ExportPaths : ExportAudioData(s, path)
    \/ \E s \in Active : \E a \in ChunkArgs : ReplaceChunk(s, a[1], a[2])
    \/ \E s \in Active : \E a \in ChunkArgs : AddChunk(s, a[1], a[2])
    \/ \E s \in Active : \E a \in ChunkArgs : SetChunk(s, a[1], a[2])
    \/ \E s \in Active : \E id \in ChunkIds : \E src \in Sess : CopyChunkFromParser(s, id, src)
    \/ \E s \in Active : \E path \in WritePaths : \E overwrite \in BOOLEAN :
          WriteWav(s, path, overwrite)

Spec == Init /\ [][Next]_vars

\* Parsing, querying and writing, without mutation, over every input file.
NextFiles ==
    \/ \E s \in Active : \E path \in {SourcePath(s), "out.wav"} : Construct(s, path)
    \/ \E s \in Active : Parse(s)
    \/ \E s \in Active : GetInfo(s)
    \/ \E s \in Active : ListChunks(s)
    \/ \E s \in Active : \E path \in WritePaths : \E overwrite \in BOOLEAN :
          WriteWav(s, path, overwrite)

SpecFiles == InitFiles /\ [][NextFiles]_vars

(***************************************************************************)
(* The store specification SpecStore: a client that, as the tests of       *)
(* write_wav do, deletes entries of parser.chunks directly, adds chunks    *)
(* (among them a deleted 'fmt ' or 'data', which then comes last in the    *)
(* dictionary) and writes.  It reaches stores without 'fmt ' or 'data' and *)
(* stores in every insertion order.                                        *)
(***************************************************************************)
INFO == <<73, 78, 70, 79>>

\* del chunks[k]
Del(chunks, k) == SelectSeq(chunks, LAMBDA e : e.key # k)

\* del parser.chunks[chunk_id]: no parsed guard; KeyError for an id that is not there.
del_chunk(sess, chunk_id) ==
    IF ~HasKey(sess.chunks, chunk_id) THEN Out(sess, Raise("KeyError", "chunk_id"))
    ELSE Out([sess EXCEPT !.chunks = Del(@, chunk_id)], NoErr)

DelChunk(s, id) ==
    LET out == del_chunk(sessions[s], id) IN
    /\ sessions' = [sessions EXCEPT ![s] = out.s]
    /\ result' = Call("del_chunk", s, id, "", out)
    /\ UNCHANGED <<fs, nops>>

\* The ids the client deletes, and the (id, data) arguments it adds.
DelIds == {FMT, DATA, LIST}

StoreArgs == { <<FMT, <<7>>>>, <<DATA, <<7>>>>, <<LIST, <<7, 8>>>>, <<INFO, <<7>>>> }

NextStore ==
    \/ \E s \in Active : Parse(s)
    \/ \E s \in Active : \E id \in DelIds : DelChunk(s, id)
    \/ \E s \in Active : \E a \in StoreArgs : AddChunk(s, a[1], a[2])
    \/ \E s \in Active : \E path \in WritePaths : \E overwrite \in BOOLEAN :
          WriteWav(s, path, overwrite)

SpecStore == Init /\ [][NextStore]_vars

(***************************************************************************)
(* The two-session specification SpecPair: both WAVParser objects are      *)
(* parsed, mutated and copied into, in every interleaving.                 *)
(***************************************************************************)
PairFiles == {PlainWav, ZeroRateWav}

InitPair == InitWith(PairFiles)

PairArgs == { <<DATA, <<7>>>>, <<DATA, << >>>>, <<LIST, <<7, 8>>>>, <<INFO, <<7>>>> }

PairIds == {DATA, LIST}

NextPair ==
    \/ \E s \in Sess : Parse(s)
    \/ \E s \in Sess : \E a \in PairArgs : ReplaceChunk(s, a[1], a[2])
    \/ \E s \in Sess : \E a \in PairArgs : AddChunk(s, a[1], a[2])
    \/ \E s \in Sess : \E a \in PairArgs : SetChunk(s, a[1], a[2])
    \/ \E s \in Sess : \E id \in PairIds : \E src \in Sess : CopyChunkFromParser(s, id, src)

SpecPair == InitPair /\ [][NextPair]_vars

(***************************************************************************)
(* Properties.                                                             *)
(***************************************************************************)

IdSet(sess) == SeqToSet(Keys(sess.chunks))

Ok(r) == r.err.kind = "none"

\* The session a new WAVParser(path).parse() gives over files, with its outcome.
Reparse(path, files) == parse(WAVParserInit(path), files)

\* C1: round-trip identity.  When a successful parse() of session s is followed by a
\* successful write_wav of the unmodified session, parsing the output succeeds and
\* gives the same audio_data, the same set of chunk ids, the same format fields and
\* the same data for every chunk.
C1_RoundTrip ==
    [][\A s \in Active :
         (/\ result.op = "parse" /\ result.s = s /\ Ok(result)
          /\ result'.op = "write_wav" /\ result'.s = s /\ Ok(result'))
         => LET re == Reparse(result'.path, fs') IN
            /\ Ok(re)
            /\ re.s.audio_data = sessions[s].audio_data
            /\ IdSet(re.s) = IdSet(sessions[s])
            /\ re.s.format_info = sessions[s].format_info
            /\ \A k \in IdSet(sessions[s]) :
                  Get(re.s.chunks, k).data = Get(sessions[s].chunks, k).data]_vars

\* C1 witness: the file with repeated ids, data before fmt and an odd last chunk has
\* been parsed and written to out.wav, and out.wav parses.
C1_Witness ==
    /\ result.op = "write_wav" /\ result.path = "out.wav" /\ Ok(result)
    /\ fs["a.wav"] = <<RepeatedWav>>
    /\ sessions[1].file_path = "a.wav"
    /\ Len(Get(sessions[1].chunks, DATA).data) % 2 = 1
    /\ Ok(Reparse("out.wav", fs))

\* C2: write reflects mutations.  After a successful write_wav of session s, whenever
\* parsing the output succeeds, the parsed store has exactly the ids of the store of
\* s, the same data for every id, and audio_data equal to the data of the 'data'
\* chunk of s.
C2_WriteReflectsStore ==
    [][\A s \in Active :
         (result'.op = "write_wav" /\ result'.s = s /\ Ok(result'))
         => LET re == Reparse(result'.path, fs') IN
            Ok(re) =>
              /\ IdSet(re.s) = IdSet(sessions[s])
              /\ \A k \in IdSet(sessions[s]) :
                    Get(re.s.chunks, k).data = Get(sessions[s].chunks, k).data
              /\ re.s.audio_data = <<Get(sessions[s].chunks, DATA).data>>]_vars

\* C2 witness: a session whose data chunk was replaced by <<7>> and which holds a
\* chunk besides fmt and data has been written, and the output parses.
C2_Witness ==
    /\ result.op = "write_wav" /\ result.s = 1 /\ Ok(result)
    /\ nops = 2
    /\ Get(sessions[1].chunks, DATA).data = <<7>>
    /\ HasKey(sessions[1].chunks, LIST)
    /\ Ok(Reparse(result.path, fs))

\* len(audio_data) for a session with audio_data set.
AudioLen(sess) == Len(sess.audio_data[1])

\* A session state that passes the parsed guard and the post-parse validation.
Valid(sess) == sess.format_info # << >> /\ _validate_format(sess).kind = "none"

\* C3: duration invariant.  In a session that passes the parsed guard and the
\* validation (so format_info and audio_data are set), duration_seconds is
\* len(audio_data) / byte_rate when byte_rate > 0, and 0 otherwise.
C3_Duration ==
    \A s \in Sess :
       Valid(sessions[s])
       => LET f == sessions[s].format_info[1] IN
          IF f.byte_rate > 0
          THEN DurEq(f.duration_seconds, <<AudioLen(sessions[s]), f.byte_rate>>)
          ELSE DurEq(f.duration_seconds, <<0, 1>>)

\* C4: the audio-data alias.  In a session that passes the parsed guard, a 'data'
\* entry of the store and audio_data hold the same bytes.
C4_AudioAlias ==
    \A s \in Sess :
       (sessions[s].format_info # << >> /\ HasKey(sessions[s].chunks, DATA))
       => sessions[s].audio_data = <<Get(sessions[s].chunks, DATA).data>>

\* The six format fields of a WAVFormat.
FormatFields(f) ==
    <<f.audio_format, f.channels, f.sample_rate, f.byte_rate, f.block_align,
      f.bits_per_sample>>

\* C5: the format descriptor follows the store.  In a session that passes the parsed
\* guard and the validation, when the 'fmt ' entry of the store has 16 bytes or more,
\* the format fields of format_info are the decoding of its first 16 bytes.
C5_FormatFollowsStore ==
    \A s \in Sess :
       (Valid(sessions[s]) /\ HasKey(sessions[s].chunks, FMT))
       => LET data == Get(sessions[s].chunks, FMT).data IN
          Len(data) >= 16
          => FormatFields(sessions[s].format_info[1]) = FormatFields(unpack_fmt(data))

\* C6: chunk record invariant.  Every record of every store has size = len(data) and
\* carries the id it is stored under.
C6_ChunkRecord ==
    \A s \in Sess : \A i \in 1..Len(sessions[s].chunks) :
       /\ sessions[s].chunks[i].val.size = Len(sessions[s].chunks[i].val.data)
       /\ sessions[s].chunks[i].val.id = sessions[s].chunks[i].key

\* C6 witness: replace_chunk has put a buffer of another length in the place of the
\* parsed data chunk, and add_chunk has added a chunk.
C6_Witness ==
    /\ result.op = "add_chunk" /\ Ok(result) /\ result.id = LIST
    /\ fs["a.wav"] = <<NoDataWav>>
    /\ Get(sessions[1].chunks, FMT).data = <<7>>
    /\ Get(sessions[1].chunks, FMT).offset = 20

\* C7: construction is parse.  A session just constructed for a path is what parse()
\* gives for that path: the same error if parsing fails, and otherwise a populated
\* session (format_info, a non-empty store, audio_data, a file size above 0).
C7_ConstructionIsParse ==
    result.op = "__init__"
    => LET sess == sessions[result.s]
           p == Reparse(sess.file_path, fs)
       IN /\ result.err = p.err
          /\ Ok(p) => /\ sess = p.s
                      /\ sess.format_info # << >> /\ sess.chunks # << >>
                      /\ sess.audio_data # << >> /\ sess.file_size > 0

\* The operations behind the parsed guard.
GuardedOps ==
    {"get_info", "list_chunks", "export_chunk", "export_audio_data", "replace_chunk",
     "add_chunk", "set_chunk", "copy_chunk_from_parser", "write_wav"}

\* C8: a failed parse leaves no usable session.  The call that follows a parse() of
\* session s that raised, when it is one of the guarded operations on s, fails with
\* the not-parsed error.
C8_FailedParseUnusable ==
    [][\A s \in Active :
         (/\ result.op = "parse" /\ result.s = s /\ ~Ok(result)
          /\ result'.s = s /\ result'.op \in GuardedOps)
         => result'.err = NotParsedErr]_vars

\* C9: the not-parsed guard.  On a session that is as __init__ left it, every
\* guarded operation, whatever its arguments, fails with WAVError 'File not parsed
\* yet' and changes neither the sessions nor any file.
C9_NotParsedGuard ==
    [][\A s \in Active :
         (/\ sessions[s] = WAVParserInit(sessions[s].file_path)
          /\ result'.s = s /\ result'.op \in GuardedOps)
         => /\ result'.err = NotParsedErr
            /\ sessions' = sessions
            /\ fs' = fs]_vars

\* C9 witness: add_chunk with a two-character id on a never-parsed session over an
\* existing file has failed with the not-parsed error.
C9_Witness ==
    /\ result.op = "add_chunk" /\ result.s = 1 /\ result.id = <<97, 98>>
    /\ result.err = NotParsedErr
    /\ sessions[1] = WAVParserInit("a.wav")
    /\ fs["a.wav"] # << >>

\* C10: replace_chunk on a session that passes the parsed guard.  With id absent it
\* raises KeyError listing the ids of the store and leaves the session as it was;
\* with id present it returns, the record of id becomes (id, len(new_data), new_data,
\* the previous offset), and the ids and every other record stay as they were.
C10_ReplaceChunk ==
    [][\A s \in Active : \A a \in ChunkArgs :
         (sessions[s].format_info # << >> /\ ReplaceChunk(s, a[1], a[2]))
         => IF ~HasKey(sessions[s].chunks, a[1])
            THEN /\ result'.err.kind = "KeyError"
                 /\ result'.err.ids = Keys(sessions[s].chunks)
                 /\ sessions'[s] = sessions[s]
            ELSE /\ Ok(result')
                 /\ Keys(sessions'[s].chunks) = Keys(sessions[s].chunks)
                 /\ Get(sessions'[s].chunks, a[1])
                      = WAVChunk(a[1], Len(a[2]), a[2], Get(sessions[s].chunks, a[1]).offset)
                 /\ \A k \in IdSet(sessions[s]) \ {a[1]} :
                       Get(sessions'[s].chunks, k) = Get(sessions[s].chunks, k)]_vars

\* C10 witness: replace_chunk has replaced the three parsed data bytes at offset 44
\* by one byte, and the record still has offset 44.
C10_Witness ==
    /\ result.op = "replace_chunk" /\ result.s = 1 /\ result.id = DATA /\ Ok(result)
    /\ fs["a.wav"] = <<PlainWav>>
    /\ Get(sessions[1].chunks, DATA) = WAVChunk(DATA, 1, <<7>>, 44)
    /\ HasKey(sessions[1].chunks, LIST)

\* An id add_chunk and set_chunk accept: exactly 4 characters, all ASCII.
ValidId(id) == Len(id) = 4 /\ IsAscii(id)

\* C11: add_chunk on a session that passes the parsed guard.  With an id that is not
\* exactly 4 characters or has a non-ASCII character it raises ValueError; otherwise,
\* with an id that is in the store, it raises ValueError ('already exists'); in both
\* cases the session is as it was.  Otherwise it returns and the store is the store
\* before with one new last entry (id, len(data), data, offset 0).
C11_AddChunk ==
    [][\A s \in Active : \A a \in ChunkArgs :
         (sessions[s].format_info # << >> /\ AddChunk(s, a[1], a[2]))
         => IF ~ValidId(a[1])
            THEN /\ result'.err.kind = "ValueError"
                 /\ sessions'[s] = sessions[s]
            ELSE IF HasKey(sessions[s].chunks, a[1])
            THEN /\ result'.err = Raise("ValueError",
                                        "Chunk already exists. Use replace_chunk() to modify it.")
                 /\ sessions'[s] = sessions[s]
            ELSE /\ Ok(result')
                 /\ sessions'[s].chunks
                      = Append(sessions[s].chunks,
                               [key |-> a[1], val |-> WAVChunk(a[1], Len(a[2]), a[2], 0)])]_vars

\* C11 witness: add_chunk has added 'LIST' with two bytes to the parsed store of a
\* file that holds 'fmt ' and 'data' only.
C11_Witness ==
    /\ result.op = "add_chunk" /\ result.s = 1 /\ result.id = LIST /\ Ok(result)
    /\ fs["a.wav"] = <<ZeroRateWav>>
    /\ Keys(sessions[1].chunks) = <<FMT, DATA, LIST>>
    /\ Get(sessions[1].chunks, LIST) = WAVChunk(LIST, 2, <<7, 8>>, 0)

\* The buffers the mutation calls are made with.
Buffers == {a[2] : a \in ChunkArgs}

\* The number of entries the store holds for id.
Entries(chunks, id) == Cardinality({i \in 1..Len(chunks) : chunks[i].key = id})

\* C12: set_chunk is last-write-wins and never duplicates.  A set_chunk(id, Y) step
\* with a valid id on a session that passes the parsed guard returns; the session
\* after it is what replace_chunk gives when id was in the store and what add_chunk
\* gives when it was not; the store then has exactly one entry for id, with data Y,
\* the other entries are as they were, and for every buffer X the store is the one
\* that set_chunk(id, X) followed by set_chunk(id, Y) gives.
C12_SetChunk ==
    [][\A s \in Active : \A a \in ChunkArgs :
         (sessions[s].format_info # << >> /\ ValidId(a[1]) /\ SetChunk(s, a[1], a[2]))
         => LET pre == sessions[s]
                post == sessions'[s]
            IN /\ Ok(result')
               /\ post = IF HasKey(pre.chunks, a[1])
                         THEN replace_chunk(pre, a[1], a[2]).s
                         ELSE add_chunk(pre, a[1], a[2]).s
               /\ Entries(post.chunks, a[1]) = 1
               /\ Get(post.chunks, a[1]).data = a[2]
               /\ IdSet(post) = IdSet(pre) \cup {a[1]}
               /\ \A k \in IdSet(pre) \ {a[1]} :
                     Get(post.chunks, k) = Get(pre.chunks, k)
               /\ \A X \in Buffers :
                     set_chunk(set_chunk(pre, a[1], X).s, a[1], a[2]).s.chunks
                       = post.chunks]_vars

\* C12 witness: two calls have changed the store and no file, the last of them a
\* set_chunk of 'LIST'; 'fmt ' and 'data' are as parsed, so the call before it put
\* 'LIST' in the store (the file has no 'LIST' chunk) and the set_chunk found it
\* there; the store has one 'LIST' entry, with the data of the last call.
C12_Witness ==
    /\ result.op = "set_chunk" /\ result.s = 1 /\ result.id = LIST /\ Ok(result)
    /\ nops = 2
    /\ fs["a.wav"] = <<ZeroRateWav>>
    /\ fs["out.wav"] = << >> /\ fs["out.bin"] = << >>
    /\ Keys(sessions[1].chunks) = <<FMT, DATA, LIST>>
    /\ Get(sessions[1].chunks, LIST).data = << >>
    /\ Get(sessions[1].chunks, FMT).data = FmtPayload(1, 1, 8, 0, 1, 8)
    /\ Get(sessions[1].chunks, DATA).data = <<1>>

\* C13: copy_chunk_from_parser(id, other) checks, in this order, that self passes the
\* parsed guard (else WAVError 'File not parsed yet'), that other passes it (else
\* WAVError 'Source parser hasn't been parsed yet') and that id is in the store of
\* other (else KeyError listing the ids of other); a failed check leaves every
\* session as it was.  Otherwise the outcome and the session of self are those of
\* set_chunk(id, the data other holds for id).  A session other than self is
\* unchanged in every case.
C13_CopyChunk ==
    [][\A s \in Active : \A id \in ChunkIds : \A src \in Sess :
         CopyChunkFromParser(s, id, src)
         => LET pre == sessions[s]
                other == sessions[src]
            IN /\ IF pre.format_info = << >>
                  THEN result'.err = NotParsedErr /\ sessions' = sessions
                  ELSE IF other.format_info = << >>
                  THEN /\ result'.err = Raise("WAVError", "Source parser hasn't been parsed yet.")
                       /\ sessions' = sessions
                  ELSE IF ~HasKey(other.chunks, id)
                  THEN /\ result'.err.kind = "KeyError"
                       /\ result'.err.ids = Keys(other.chunks)
                       /\ sessions' = sessions
                  ELSE LET set == set_chunk(pre, id, Get(other.chunks, id).data) IN
                       /\ result'.err = set.err
                       /\ Ok(result')
                       /\ sessions'[s] = set.s
               /\ \A o \in Sess \ {s} : sessions'[o] = sessions[o]]_vars

\* C13 witness: session 1 has copied the three data bytes of the parsed session 2
\* over its own parsed data chunk.
C13_Witness ==
    /\ result.op = "copy_chunk_from_parser" /\ result.s = 1 /\ result.id = DATA /\ Ok(result)
    /\ fs["a.wav"] = <<PlainWav>>
    /\ sessions[2].format_info # << >>
    /\ Get(sessions[1].chunks, DATA) = WAVChunk(DATA, 3, <<6, 6, 6>>, 44)
    /\ sessions[1].audio_data = <<Get(sessions[2].chunks, DATA).data>>

\* The overwrite guard of write_wav fires: the output path names the source file of
\* the session and overwrite is not set.
OverwriteGuard(sess, output_path, overwrite) ==
    resolve(output_path) = resolve(sess.file_path) /\ ~overwrite

\* What C14 says of a write_wav call with a required chunk missing: it raises
\* InvalidWAVFormatError naming 'fmt ' when 'fmt ' is missing and otherwise naming
\* 'data', and no file is created or changed.
MissingChunkOutcome(sess) ==
    (~HasKey(sess.chunks, FMT) \/ ~HasKey(sess.chunks, DATA))
    => /\ result'.err.kind = "InvalidWAVFormatError"
       /\ result'.err.ids = IF ~HasKey(sess.chunks, FMT) THEN <<FMT>> ELSE <<DATA>>
       /\ fs' = fs

\* C14 as stated: every write_wav call on a session that passes the parsed guard and
\* whose store lacks 'fmt ' or 'data' raises InvalidWAVFormatError naming the missing
\* chunk ('fmt ' first) and leaves the files as they were.
C14_RequiredChunks_Stated ==
    [][\A s \in Active : \A path \in WritePaths : \A overwrite \in BOOLEAN :
         (sessions[s].format_info # << >> /\ WriteWav(s, path, overwrite))
         => MissingChunkOutcome(sessions[s])]_vars

\* C14 amended: the overwrite guard is checked before the required chunks.  A
\* write_wav call on a session that passes the parsed guard, whose store lacks 'fmt '
\* or 'data', and for which the overwrite guard does not fire, raises
\* InvalidWAVFormatError naming the missing chunk ('fmt ' first) and leaves the files
\* as they were; when the overwrite guard fires the call raises FileExistsError,
\* whatever the store holds, and also leaves the files as they were.
C14_RequiredChunks ==
    [][\A s \in Active : \A path \in WritePaths : \A overwrite \in BOOLEAN :
         (sessions[s].format_info # << >> /\ WriteWav(s, path, overwrite))
         => IF OverwriteGuard(sessions[s], path, overwrite)
            THEN result'.err.kind = "FileExistsError" /\ fs' = fs
            ELSE MissingChunkOutcome(sessions[s])]_vars

\* C14 witness: 'fmt ' was deleted from a parsed store that still holds 'data', and a
\* write_wav to out.wav has failed naming 'fmt ', with no out.wav created.
C14_Witness ==
    /\ result.op = "write_wav" /\ result.s = 1 /\ result.path = "out.wav"
    /\ result.err.kind = "InvalidWAVFormatError" /\ result.err.ids = <<FMT>>
    /\ sessions[1].format_info # << >>
    /\ ~HasKey(sessions[1].chunks, FMT) /\ HasKey(sessions[1].chunks, DATA)
    /\ fs["out.wav"] = << >>

\* The output path names the source file of the session.
SameFile(sess, output_path) == resolve(output_path) = resolve(sess.file_path)

\* C15 as stated: a write_wav call, on a session that passes the parsed guard, to a
\* path that resolves to the source file fails with FileExistsError and leaves the
\* files as they were when overwrite is False, and when overwrite is True succeeds
\* and leaves the serialized session in the source file.
C15_OverwriteGuard_Stated ==
    [][\A s \in Active : \A path \in WritePaths : \A overwrite \in BOOLEAN :
         (/\ sessions[s].format_info # << >> /\ SameFile(sessions[s], path)
          /\ WriteWav(s, path, overwrite))
         => IF ~overwrite
            THEN result'.err.kind = "FileExistsError" /\ fs' = fs
            ELSE /\ Ok(result')
                 /\ fs'[resolve(path)] = <<Serialize(sessions[s].chunks)>>]_vars

\* C15 amended: with overwrite False the call fails with FileExistsError and leaves
\* the files as they were, whatever the store holds; with overwrite True the guard
\* lets the call through to the required chunks: a store with 'fmt ' and 'data' is
\* written, the source file then holds the serialized session and no other file
\* changes, and a store without one of them makes the call fail with
\* InvalidWAVFormatError, the files as they were.
C15_OverwriteGuard ==
    [][\A s \in Active : \A path \in WritePaths : \A overwrite \in BOOLEAN :
         (/\ sessions[s].format_info # << >> /\ SameFile(sessions[s], path)
          /\ WriteWav(s, path, overwrite))
         => IF ~overwrite
            THEN result'.err.kind = "FileExistsError" /\ fs' = fs
            ELSE IF HasKey(sessions[s].chunks, FMT) /\ HasKey(sessions[s].chunks, DATA)
            THEN /\ Ok(result')
                 /\ fs' = [fs EXCEPT ![resolve(path)] = <<Serialize(sessions[s].chunks)>>]
            ELSE result'.err.kind = "InvalidWAVFormatError" /\ fs' = fs]_vars

\* C15 witness: after the 'data' chunk was deleted and added again with one byte, a
\* write_wav to "./a.wav", a path string other than the source path "a.wav" of the
\* session, has succeeded, and a.wav holds the serialized session, which is not what
\* it held before.
C15_Witness ==
    /\ result.op = "write_wav" /\ result.s = 1 /\ result.path = "./a.wav" /\ Ok(result)
    /\ sessions[1].file_path = "a.wav"
    /\ nops = 2
    /\ Get(sessions[1].chunks, DATA).data = <<7>>
    /\ fs["a.wav"] = <<Serialize(sessions[1].chunks)>>
    /\ Len(fs["a.wav"][1]) # sessions[1].file_size

\* The chunk headers of a RIFF byte stream from offset pos on, as a reader that
\* follows the sizes and pad bytes finds them: the id, the offset of the header and
\* the declared size of each.
RECURSIVE ChunkHeaders(_, _)
ChunkHeaders(bytes, pos) ==
    LET chunk_header == read(bytes, pos, 8) IN
    IF Len(chunk_header) < 8 THEN << >>
    ELSE LET size == unpack_I(SubSeq(chunk_header, 5, 8)) IN
         <<[id |-> SubSeq(chunk_header, 1, 4), at |-> pos, size |-> size]>>
         \o ChunkHeaders(bytes, pos + 8 + size + Pad(size))

\* The file a successful write_wav call has written.
Written == fs'[resolve(result'.path)][1]

\* C16: write ordering.  The file a successful write_wav call writes has one chunk
\* for each entry of the store and no other, each with the size of its record; the
\* first is 'fmt ', with its header at offset 12; the second is 'data', with its
\* header right after the payload and pad byte of 'fmt '; the ids of the chunks after
\* them are in strictly ascending order.
C16_WriteOrder ==
    [][\A s \in Active :
         (result'.op = "write_wav" /\ result'.s = s /\ Ok(result'))
         => LET chunks == sessions[s].chunks
                hs == ChunkHeaders(Written, 12)
                fmt == Get(chunks, FMT)
            IN /\ Len(hs) = Len(chunks)
               /\ {hs[i].id : i \in 1..Len(hs)} = IdSet(sessions[s])
               /\ \A i \in 1..Len(hs) : hs[i].size = Get(chunks, hs[i].id).size
               /\ hs[1].id = FMT /\ hs[1].at = 12
               /\ hs[2].id = DATA /\ hs[2].at = 12 + 8 + fmt.size + Pad(fmt.size)
               /\ \A i \in 3..(Len(hs) - 1) : StrLess(hs[i].id, hs[i + 1].id)]_vars

\* C16 witness: a store that holds, in dictionary order, 'LIST', 'data', 'fmt ' and
\* the added 'INFO' has been written to out.wav as 'fmt ', 'data', 'INFO', 'LIST'.
C16_Witness ==
    /\ result.op = "write_wav" /\ result.s = 1 /\ result.path = "out.wav" /\ Ok(result)
    /\ Keys(sessions[1].chunks) = <<LIST, DATA, FMT, INFO>>
    /\ LET hs == ChunkHeaders(fs["out.wav"][1], 12) IN
       [i \in 1..Len(hs) |-> hs[i].id] = <<FMT, DATA, INFO, LIST>>

\* The sum, over the records of the store, of 8 + size + (1 if size is odd else 0).
RECURSIVE PaddedSum(_)
PaddedSum(chunks) ==
    IF chunks = << >> THEN 0
    ELSE LET size == Head(chunks).val.size IN
         8 + size + (IF size % 2 = 1 THEN 1 ELSE 0) + PaddedSum(Tail(chunks))

\* C17: size accounting on write.  For the file a successful write_wav call writes:
\* the RIFF size field at offset 4 is 4 + the padded sum of the store, the value
\* returned is 12 + that sum and is the length of the file, the size field is the
\* length of the file minus 8, and every chunk of odd size is followed by one zero
\* byte, after which the next header starts or the file ends.
C17_SizeAccounting ==
    [][\A s \in Active :
         (result'.op = "write_wav" /\ result'.s = s /\ Ok(result'))
         => LET chunks == sessions[s].chunks
                riff_size == unpack_I(SubSeq(Written, 5, 8))
                hs == ChunkHeaders(Written, 12)
            IN /\ riff_size = 4 + PaddedSum(chunks)
               /\ result'.ret = <<12 + PaddedSum(chunks)>>
               /\ result'.ret = <<Len(Written)>>
               /\ riff_size = Len(Written) - 8
               /\ Len(hs) = Len(chunks)
               /\ \A i \in 1..Len(hs) :
                     LET end == hs[i].at + 8 + hs[i].size IN
                     /\ hs[i].size = Get(chunks, hs[i].id).size
                     /\ SubSeq(Written, hs[i].at + 9, end) = Get(chunks, hs[i].id).data
                     /\ hs[i].size % 2 = 1 => Written[end + 1] = 0
                     /\ LET next == end + (IF hs[i].size % 2 = 1 THEN 1 ELSE 0) IN
                        IF i < Len(hs) THEN hs[i + 1].at = next ELSE Len(Written) = next]_vars

\* C17 witness: a store whose 'fmt ' chunk has one byte (deleted and added again) and
\* whose 'data' chunk has an odd size has been written to out.wav, and the value
\* returned is the length of out.wav.
C17_Witness ==
    /\ result.op = "write_wav" /\ result.s = 1 /\ result.path = "out.wav" /\ Ok(result)
    /\ Get(sessions[1].chunks, FMT).size = 1
    /\ Get(sessions[1].chunks, DATA).size % 2 = 1
    /\ result.ret = <<Len(fs["out.wav"][1])>>
    /\ Len(fs["out.wav"][1]) = 12 + 10 + Get(sessions[1].chunks, DATA).size + 9
                               + PaddedSum(Del(Del(sessions[1].chunks, FMT), DATA))

TooSmallErr == Raise("CorruptedFileError", "File too small to be a valid WAV file")

NotRiffErr == Raise("InvalidWAVFormatError", "Not a valid RIFF file")

NotWaveErr == Raise("InvalidWAVFormatError", "Not a valid WAV file")

\* Values for the declared-size field: zero, the size of an empty form, a size no
\* file here has, and 2^31 - 1.
SizeFields == {0, 4, 1000, 2147483647}

\* bytes with the declared-size field (bytes 4..7) set to v.
WithSizeField(bytes, v) == SubSeq(bytes, 1, 4) \o pack_I(v) \o SubSeq(bytes, 9, Len(bytes))

\* C19: the RIFF header outcome.  A parse() of an existing file raises
\* CorruptedFileError when the file has fewer than 12 bytes; otherwise
\* InvalidWAVFormatError ('Not a valid RIFF file') when its first 4 bytes are not
\* 'RIFF'; otherwise InvalidWAVFormatError ('Not a valid WAV file') when bytes 8..11
\* are not 'WAVE'; otherwise none of these three.  And for every value of the
\* declared-size field, parse() of the file with that value in bytes 4..7 has the
\* same outcome, the same return value and gives the same session.
C19_RiffHeader ==
    [][\A s \in Active :
         (Parse(s) /\ fs[resolve(sessions[s].file_path)] # << >>)
         => LET path == resolve(sessions[s].file_path)
                bytes == fs[path][1]
            IN /\ IF Len(bytes) < 12 THEN result'.err = TooSmallErr
                  ELSE IF SubSeq(bytes, 1, 4) # RIFF THEN result'.err = NotRiffErr
                  ELSE IF SubSeq(bytes, 9, 12) # WAVE THEN result'.err = NotWaveErr
                  ELSE result'.err \notin {TooSmallErr, NotRiffErr, NotWaveErr}
               /\ Len(bytes) >= 8
                  => \A v \in SizeFields :
                        LET other == parse(sessions[s],
                                           [fs EXCEPT ![path] = <<WithSizeField(bytes, v)>>])
                        IN /\ other.err = result'.err
                           /\ other.ret = result'.ret
                           /\ other.s = sessions'[s]]_vars

\* C19 witness: a file whose declared size is 0, which is not its length minus 8, has
\* been parsed without error.
C19_Witness ==
    /\ result.op = "parse" /\ result.s = 1 /\ Ok(result)
    /\ sessions[1].file_path = "a.wav"
    /\ fs["a.wav"] = <<ZeroRateWav>>
    /\ unpack_I(SubSeq(fs["a.wav"][1], 5, 8)) = 0
    /\ sessions[1].file_size - 8 # 0
    /\ Keys(sessions[1].chunks) = <<FMT, DATA>>

\* The messages of the errors _parse_format_chunk raises in the middle of the walk.
FormatErrs ==
    {"Format chunk too small", "Non-PCM format requires at least 18 bytes in format chunk",
     "Format chunk size is smaller than expected"}

\* A header found in bytes that the walk cannot accept: an id with a non-ASCII byte,
\* or a declared size that exceeds the bytes that remain after the header.
BadHeader(bytes, h) == ~IsAscii(h.id) \/ h.at + 8 + h.size > Len(bytes)

\* Where the walk over headers hs ends: after the payload and the pad byte of the
\* last chunk, or at the end of bytes when that pad byte is missing.
WalkEnd(bytes, hs) ==
    IF hs = << >> THEN 12
    ELSE LET last == hs[Len(hs)] IN Min(last.at + 8 + last.size + Pad(last.size), Len(bytes))

\* The length of a chunk header: with fewer bytes left, the walk stops.
HeaderLen == 8

\* C20: the end conditions of the chunk walk.  Take a parse() of a file with a good
\* RIFF header that raises no format-chunk error, and the chunk headers found by
\* following the sizes and pad bytes from offset 12.  When none of them has a
\* non-ASCII id or a size that exceeds the remaining bytes, the walk raises nothing:
\* fewer than 8 bytes are left where it stops, a missing last pad byte included; a new
\* session holds exactly the chunks found, each at the offset after its header (the
\* last one of a repeated id); and the file with more trailing bytes, up to 7 in all,
\* gives the same outcome and store.  Otherwise parse() raises CorruptedFileError
\* naming the id of the first such header, and a new session holds the chunks before
\* it.
C20_ChunkWalk ==
    [][\A s \in Active :
         (/\ Parse(s)
          /\ fs[resolve(sessions[s].file_path)] # << >>
          /\ _parse_riff_header(fs[resolve(sessions[s].file_path)][1]) = NoErr
          /\ result'.err.msg \notin FormatErrs)
         => LET path == resolve(sessions[s].file_path)
                bytes == fs[path][1]
                hs == ChunkHeaders(bytes, 12)
                bad == {i \in 1..Len(hs) : BadHeader(bytes, hs[i])}
                fresh == sessions[s] = WAVParserInit(sessions[s].file_path)
                post == sessions'[s]
            IN IF bad = {}
               THEN /\ result'.err.kind # "CorruptedFileError"
                    /\ Len(bytes) - WalkEnd(bytes, hs) \in 0..(HeaderLen - 1)
                    /\ fresh =>
                         /\ IdSet(post) = {hs[i].id : i \in 1..Len(hs)}
                         /\ \A i \in 1..Len(hs) :
                               (\A j \in (i + 1)..Len(hs) : hs[j].id # hs[i].id)
                               => Get(post.chunks, hs[i].id)
                                    = WAVChunk(hs[i].id, hs[i].size,
                                               SubSeq(bytes, hs[i].at + 9,
                                                      hs[i].at + 8 + hs[i].size),
                                               hs[i].at + 8)
                    /\ \A t \in 1..(HeaderLen - 1 - (Len(bytes) - WalkEnd(bytes, hs))) :
                          LET longer == bytes \o [i \in 1..t |-> 9]
                              other == parse(sessions[s], [fs EXCEPT ![path] = <<longer>>])
                          IN /\ other.err = result'.err
                             /\ other.s = [post EXCEPT !.file_size = @ + t]
               ELSE LET k == CHOOSE i \in bad : \A j \in bad : i <= j IN
                    /\ result'.err
                         = RaiseIds("CorruptedFileError",
                                    IF ~IsAscii(hs[k].id)
                                    THEN "Invalid chunk ID (non-ASCII bytes)"
                                    ELSE "Incomplete chunk",
                                    <<hs[k].id>>)
                    /\ fresh => IdSet(post) = {hs[i].id : i \in 1..(k - 1)}]_vars

\* C20 witness: a new session has parsed, without error, the file that has an odd
\* chunk followed by its pad byte, an odd last chunk followed by its pad byte and three
\* trailing bytes; it holds the three ids of the five chunks.
C20_Witness ==
    /\ result.op = "parse" /\ result.s = 1 /\ Ok(result)
    /\ fs["a.wav"] = <<RepeatedWav>>
    /\ sessions[1].file_path = "a.wav"
    /\ Len(ChunkHeaders(RepeatedWav, 12)) = 5
    /\ Len(RepeatedWav) - WalkEnd(RepeatedWav, ChunkHeaders(RepeatedWav, 12)) = 3
    /\ Keys(sessions[1].chunks) = <<LIST, DATA, FMT>>
    /\ Get(sessions[1].chunks, DATA) = WAVChunk(DATA, 1, <<3>>, Len(RepeatedWav) - 5)

\* The payload of the chunk with header h in bytes.
Payload(bytes, h) == SubSeq(bytes, h.at + 9, h.at + 8 + h.size)

\* The last of the headers hs that has the id.
LastOf(hs, id) ==
    hs[CHOOSE i \in 1..Len(hs) :
         hs[i].id = id /\ \A j \in (i + 1)..Len(hs) : hs[j].id # id]

\* The messages of the errors _validate_format raises.
ValidationMsgs ==
    {"No format chunk found", "Unsupported audio format", "Invalid number of channels",
     "Invalid sample rate", "No audio data found"}

\* The walk of bytes meets no header it cannot accept.
CleanWalk(bytes) ==
    /\ _parse_riff_header(bytes) = NoErr
    /\ \A i \in 1..Len(ChunkHeaders(bytes, 12)) :
          ~BadHeader(bytes, ChunkHeaders(bytes, 12)[i])

\* bytes has two chunks with one id.
HasDuplicates(bytes) ==
    LET hs == ChunkHeaders(bytes, 12) IN
    \E i, j \in 1..Len(hs) : i < j /\ hs[i].id = hs[j].id

\* C21: duplicate chunk ids.  When a new session parses a file in which some id
\* occurs more than once (a file the walk accepts, every format chunk decodable),
\* parse() raises nothing but what the validation raises; for every id of the file
\* the store holds one record, with the data, size and offset of the last chunk of
\* that id; format_info has the fields of the last 'fmt ' chunk and audio_data is the
\* data of the last 'data' chunk.
C21_DuplicateIds ==
    [][\A s \in Active :
         (/\ Parse(s)
          /\ sessions[s] = WAVParserInit(sessions[s].file_path)
          /\ fs[resolve(sessions[s].file_path)] # << >>
          /\ CleanWalk(fs[resolve(sessions[s].file_path)][1])
          /\ HasDuplicates(fs[resolve(sessions[s].file_path)][1])
          /\ result'.err.msg \notin FormatErrs)
         => LET bytes == fs[resolve(sessions[s].file_path)][1]
                hs == ChunkHeaders(bytes, 12)
                ids == {hs[i].id : i \in 1..Len(hs)}
                post == sessions'[s]
            IN /\ Ok(result') \/ result'.err.msg \in ValidationMsgs
               /\ IdSet(post) = ids
               /\ \A id \in ids :
                     LET last == LastOf(hs, id) IN
                     /\ Entries(post.chunks, id) = 1
                     /\ Get(post.chunks, id)
                          = WAVChunk(id, last.size, Payload(bytes, last), last.at + 8)
               /\ FMT \in ids
                  => FormatFields(post.format_info[1])
                       = FormatFields(unpack_fmt(Payload(bytes, LastOf(hs, FMT))))
               /\ DATA \in ids
                  => post.audio_data = <<Payload(bytes, LastOf(hs, DATA))>>]_vars

\* C21 witness: the file with two 'fmt ' chunks (two channels, then one) and two
\* 'data' chunks (two bytes, then one) has been parsed without error; the session has
\* one channel, the one-byte audio data and three records.
C21_Witness ==
    /\ result.op = "parse" /\ result.s = 1 /\ Ok(result)
    /\ fs["a.wav"] = <<RepeatedWav>>
    /\ sessions[1].file_path = "a.wav"
    /\ HasDuplicates(RepeatedWav)
    /\ Len(sessions[1].chunks) = 3
    /\ sessions[1].format_info[1].channels = 1
    /\ sessions[1].audio_data = <<<<3>>>>
    /\ Get(sessions[1].chunks, FMT).data = PcmFmt

\* The little-endian numbers of 2 and of 4 bytes at offset i of the payload d.
LE16(d, i) == d[i + 1] + 256 * d[i + 2]

LE32(d, i) == d[i + 1] + 256 * d[i + 2] + 65536 * d[i + 3] + 16777216 * d[i + 4]

\* What C22 says of a 'fmt ' payload: the message of the error, or "" when it decodes.
FmtVerdict(d) ==
    IF Len(d) < 16 THEN "Format chunk too small"
    ELSE IF LE16(d, 0) # 1 /\ Len(d) < 18
    THEN "Non-PCM format requires at least 18 bytes in format chunk"
    ELSE IF LE16(d, 0) # 1 /\ Len(d) < 18 + LE16(d, 16)
    THEN "Format chunk size is smaller than expected"
    ELSE ""

\* The six fields of the first 16 bytes of a 'fmt ' payload.
SixFields(d) == <<LE16(d, 0), LE16(d, 2), LE32(d, 4), LE32(d, 8), LE16(d, 12), LE16(d, 14)>>

\* C22: the thresholds of the format chunk decoder.  Take a parse() by a new session
\* of a file the walk accepts.  If one of its 'fmt ' payloads is shorter than 16
\* bytes, or has a format tag other than 1 and is shorter than 18 bytes or than 18 +
\* the uint16 at offset 16, parse() raises InvalidWAVFormatError with the message of
\* the first such payload ('too small', 'requires at least 18 bytes', 'smaller than
\* expected', checked in this order).  Otherwise every 'fmt ' payload decodes,
\* whatever follows its first 16 bytes, to their six little-endian fields with
\* duration 0, and format_info has the fields of the last one.
C22_FormatThresholds ==
    [][\A s \in Active :
         (/\ Parse(s)
          /\ sessions[s] = WAVParserInit(sessions[s].file_path)
          /\ fs[resolve(sessions[s].file_path)] # << >>
          /\ CleanWalk(fs[resolve(sessions[s].file_path)][1]))
         => LET bytes == fs[resolve(sessions[s].file_path)][1]
                hs == ChunkHeaders(bytes, 12)
                fmts == {i \in 1..Len(hs) : hs[i].id = FMT}
                failing == {i \in fmts : FmtVerdict(Payload(bytes, hs[i])) # ""}
                post == sessions'[s]
            IN IF failing # {}
               THEN LET k == CHOOSE i \in failing : \A j \in failing : i <= j IN
                    result'.err = Raise("InvalidWAVFormatError",
                                        FmtVerdict(Payload(bytes, hs[k])))
               ELSE /\ result'.err.msg \notin FormatErrs
                    /\ \A i \in fmts :
                          LET d == Payload(bytes, hs[i])
                              r == _parse_format_chunk(sessions[s], d)
                          IN /\ r.err = NoErr
                             /\ FormatFields(r.s.format_info[1]) = SixFields(d)
                             /\ r.s.format_info[1].duration_seconds = <<0, 1>>
                    /\ fmts # {}
                       => /\ post.format_info # << >>
                          /\ FormatFields(post.format_info[1])
                               = SixFields(Payload(bytes, LastOf(hs, FMT)))]_vars

\* C22 witness: a PCM format chunk of 18 bytes, whose last two bytes would be an
\* extension size of 2313, has been decoded: the parse succeeded and format_info has
\* the six fields.
C22_Witness ==
    /\ result.op = "parse" /\ result.s = 1 /\ Ok(result)
    /\ Get(sessions[1].chunks, FMT).data = PcmFmt \o <<9, 9>>
    /\ FmtVerdict(PcmFmt \o <<9, 9>>) = ""
    /\ FormatFields(sessions[1].format_info[1]) = <<1, 1, 8, 2, 1, 8>>

\* C23: the order of the post-parse validation.  Take a parse() by a new session of a
\* file the walk accepts and whose format chunks all decode.  parse() raises
\* InvalidWAVFormatError with the message of the first of these that is the case,
\* whatever else is: the file has no 'fmt ' chunk ('No format chunk found'); the
\* format tag of its last 'fmt ' chunk is not 1 ('Unsupported audio format'); its
\* channels are 0 ('Invalid number of channels'); its sample rate is 0 ('Invalid
\* sample rate'); the file has no 'data' chunk ('No audio data found').  When none is
\* the case, a 'data' chunk of length 0 included, parse() raises no validation error.
C23_ValidationOrder ==
    [][\A s \in Active :
         (/\ Parse(s)
          /\ sessions[s] = WAVParserInit(sessions[s].file_path)
          /\ fs[resolve(sessions[s].file_path)] # << >>
          /\ CleanWalk(fs[resolve(sessions[s].file_path)][1])
          /\ result'.err.msg \notin FormatErrs)
         => LET bytes == fs[resolve(sessions[s].file_path)][1]
                hs == ChunkHeaders(bytes, 12)
                ids == {hs[i].id : i \in 1..Len(hs)}
                f == SixFields(Payload(bytes, LastOf(hs, FMT)))
                Invalid(msg) == result'.err = Raise("InvalidWAVFormatError", msg)
            IN IF FMT \notin ids THEN Invalid("No format chunk found")
               ELSE IF f[1] # 1 THEN Invalid("Unsupported audio format")
               ELSE IF f[2] = 0 THEN Invalid("Invalid number of channels")
               ELSE IF f[3] = 0 THEN Invalid("Invalid sample rate")
               ELSE IF DATA \notin ids THEN Invalid("No audio data found")
               ELSE result'.err.msg \notin ValidationMsgs]_vars

\* C23 witness: a file whose 'data' chunk has length 0 has been parsed without error;
\* audio_data is the empty buffer, not None.
C23_Witness ==
    /\ result.op = "parse" /\ result.s = 1 /\ Ok(result)
    /\ fs["a.wav"] = <<WavOf(ChunkOf(FMT, PcmFmt) \o ChunkOf(DATA, << >>))>>
    /\ sessions[1].file_path = "a.wav"
    /\ sessions[1].audio_data = << << >> >>
    /\ Get(sessions[1].chunks, DATA).size = 0
    /\ _validate_format(sessions[1]) = NoErr

\* C24: the sample-count law.  In a session that passes the parsed guard and the
\* validation, get_info() returns, and its sample_count is 0 when audio_data is
\* empty and otherwise len(audio_data) floor-divided by (bits_per_sample / 8) x
\* channels, for every bits_per_sample and channels.
C24_SampleCount ==
    \A s \in Sess :
       Valid(sessions[s])
       => LET f == sessions[s].format_info[1]
              r == get_info(sessions[s])
          IN /\ Ok(r)
             /\ IF AudioLen(sessions[s]) = 0 THEN r.ret[1].sample_count = 0
                ELSE /\ (f.bits_per_sample \div 8) * f.channels > 0
                     /\ r.ret[1].sample_count
                          = AudioLen(sessions[s]) \div ((f.bits_per_sample \div 8) * f.channels)

\* C25: export_audio_data is export_chunk of 'data'.  On a session that passes the
\* parsed guard and the validation, an export_audio_data(path) call has the outcome
\* of export_chunk('data', path): the same error or the same returned count, and the
\* same files afterwards; when it returns, the file at path holds the data of the
\* 'data' record.
C25_ExportEquivalence ==
    [][\A s \in Active : \A path \in ExportPaths :
         (Valid(sessions[s]) /\ ExportAudioData(s, path))
         => LET chunk == export_chunk(sessions[s], fs, DATA, path) IN
            /\ result'.err = chunk.err
            /\ result'.ret = chunk.ret
            /\ fs' = chunk.files
            /\ Ok(result') => fs'[resolve(path)] = <<Get(sessions[s].chunks, DATA).data>>]_vars

\* The operations that open a destination.
IOOps == {"export_chunk", "export_audio_data", "write_wav"}

\* C26: I/O failures are wrapped.  A call of export_chunk, export_audio_data or
\* write_wav whose destination cannot be opened fails, with an error that is not the
\* raw OSError, and leaves every session as it was.
C26_IOWrapped ==
    [][(result'.op \in IOOps /\ Unwritable(result'.path))
       => /\ ~Ok(result')
          /\ result'.err.kind # "OSError"
          /\ sessions' = sessions]_vars

\* C27: two sessions share no state.  A call on one session (parse, replace_chunk,
\* add_chunk, set_chunk, copy_chunk_from_parser, failed or not) leaves every field of
\* the other session as it was, so each session ends as its own calls alone leave it;
\* the one coupling is the copy, which gives the destination what set_chunk gives it
\* for the source's data at the time of the call, and leaves the source alone.
C27_SessionIndependence ==
    [][\A s \in Sess :
         (result'.s = s /\ result' # result)
         => /\ \A o \in Sess \ {s} : sessions'[o] = sessions[o]
            /\ \A src \in Sess \ {s} : \A id \in PairIds :
                 (CopyChunkFromParser(s, id, src) /\ Ok(result'))
                 => /\ sessions'[s]
                         = set_chunk(sessions[s], id, Get(sessions[src].chunks, id).data).s
                    /\ Get(sessions'[s].chunks, id).data = Get(sessions[src].chunks, id).data]_vars

\* Session 1 copied 'data' from session 2, then session 2 replaced its own 'data':
\* session 1 still holds the copied bytes, audio_data included.
C27_Witness ==
    /\ result.op = "replace_chunk" /\ result.s = 2 /\ result.id = DATA /\ Ok(result)
    /\ nops = 2
    /\ sessions[2].audio_data = <<<<7>>>>
    /\ Get(sessions[2].chunks, DATA).data = <<7>>
    /\ Valid(sessions[1])
    /\ sessions[1].audio_data = <<<<6, 6, 6>>>>
    /\ Get(sessions[1].chunks, DATA).data = <<6, 6, 6>>

\* The outcome of the first parse() of a new session on the file of sess.
FirstParse(sess) == parse(WAVParserInit(sess.file_path), fs)

\* C28: parse() is repeatable.  A parse() right after a parse() of the same session
\* gives the same outcome and leaves the session as it was; so does a parse() of any
\* session that is as its first parse of the present file left it (calls that read
\* or write may lie in between), and it returns what that first parse returned;
\* get_info() right after a successful parse() returns what the parse returned.
C28_ParseRepeatable ==
    [][\A s \in Active :
         /\ (result.op = "parse" /\ result.s = s /\ Parse(s))
            => (result' = result /\ sessions' = sessions)
         /\ (sessions[s] = FirstParse(sessions[s]).s /\ Parse(s))
            => /\ sessions' = sessions
               /\ result'.err = FirstParse(sessions[s]).err
               /\ result'.ret = FirstParse(sessions[s]).ret
         /\ (result.op = "parse" /\ result.s = s /\ Ok(result) /\ GetInfo(s))
            => result'.ret = result.ret]_vars

\* A session that parsed a file with repeated ids, on which one more parse() returns
\* the same info and gives the same session.
C28_Witness ==
    /\ result.op = "parse" /\ result.s = 1 /\ Ok(result)
    /\ HasDuplicates(fs[resolve(sessions[1].file_path)][1])
    /\ sessions[1] = FirstParse(sessions[1]).s
    /\ parse(sessions[1], fs).s = sessions[1]
    /\ parse(sessions[1], fs).ret = result.ret

\* C29: written files are re-parseable.  When a session that parsed validly (its
\* format_info and audio_data still pass the validation), after any replace/add/set/
\* copy calls, writes a file with success, parse() of a new session on that file
\* succeeds.
C29_WrittenReparseable ==
    [][\A s \in Active :
         (Valid(sessions[s]) /\ result'.op = "write_wav" /\ result'.s = s /\ Ok(result'))
         => Ok(Reparse(result'.path, fs'))]_vars

\* The exceptions of the parser's own taxonomy that parse() documents.
ParseErrs == {"CorruptedFileError", "InvalidWAVFormatError"}

\* C30: parse outcomes are closed over the error taxonomy.  A parse() of a file that
\* exists either returns the info dictionary or raises CorruptedFileError or
\* InvalidWAVFormatError.
C30_ParseClosed ==
    [][\A s \in Active :
         (fs[resolve(sessions[s].file_path)] # << >> /\ Parse(s))
         => \/ (Ok(result') /\ result'.ret # << >>)
            \/ result'.err.kind \in ParseErrs]_vars

====
